---------------------------- MODULE Spec2Model ----------------------------
(***************************************************************************)
(* Weather-Based Recommendation Agent (src/UI_main.py).                    *)
(*                                                                         *)
(* Text is a sequence of tokens.  A token is an indivisible piece of a     *)
(* Python string; the token " " is the only whitespace token.  The empty   *)
(* string is <<>>.  Concatenation (f-strings) is \o.                       *)
(* A dict is a function from key names to values: a missing key is a name  *)
(* outside its DOMAIN.  API keys are plain strings, "" being the empty key. *)
(***************************************************************************)
EXTENDS Naturals, Sequences, FiniteSets, TLC

(***************************************************************************)
(* Bounds of the model.                                                    *)
(***************************************************************************)
\* longest LLM reply, in tokens, given to extract_location_node run alone
MaxReplyLen == 2
\* process_query invocations made in one behaviour, over all threads
MaxCalls == 2
\* the same, when the two services are deterministic mocks
MaxMockCalls == 3
\* the same, when the threads are scheduled fairly
MaxFairCalls == 1

\* the worker threads on which the UI runs process_query
Threads == {"A", "B"}

(***************************************************************************)
(* dict and str primitives                                                 *)
(***************************************************************************)
\* d.get(k, default)
Get(d, k, default) == IF k \in DOMAIN d THEN d[k] ELSE default

\* d[k] = v
Put(d, k, v) == [f \in (DOMAIN d) \cup {k} |-> IF f = k THEN v ELSE d[f]]

IsSpace(c) == c = " "

RECURSIVE lstrip(_)
lstrip(s) == IF s # <<>> /\ IsSpace(Head(s)) THEN lstrip(Tail(s)) ELSE s

RECURSIVE rstrip(_)
rstrip(s) ==
    IF s # <<>> /\ IsSpace(s[Len(s)]) THEN rstrip(SubSeq(s, 1, Len(s) - 1)) ELSE s

\* str.strip()
strip(s) == rstrip(lstrip(s))

(***************************************************************************)
(* String literals of the source                                           *)
(***************************************************************************)
GroqKeyNotSet == <<"GROQ_API_KEY not set. Please set it as an environment variable.">>
WeatherKeyNotSet == <<"WEATHER_API_KEY not set">>
WeatherApiErrorPrefix == <<"Weather API error: ">>
UnexpectedErrorPrefix == <<"Unexpected error: ">>
LocationErrorPrefix == <<"Location extraction error: ">>
ExtractedPrefix == <<"Extracted location: ">>
UnknownLocation == <<"unknown">>
NoLocationMsg ==
    <<"No location specified. Please include a city or location in your query.">>
FetchedPrefix == <<"Fetched weather data for ">>
NoWeatherMsg == <<"No weather data available">>
GeneratedMsg == <<"Generated recommendations">>
RecommendationErrorPrefix == <<"Recommendation generation error: ">>
UnknownErrorMsg == <<"Unknown error occurred">>
\* the warning sign and the bold label that open the error handler's message
ErrorMarker == <<"(warning sign) **Error**: ">>
ErrorHint ==
    <<"\n\nPlease try again with a different query or check your API keys.">>
PleaseGroqKey == <<"(cross mark) Please provide your Groq API key">>
PleaseWeatherKey == <<"(cross mark) Please provide your WeatherAPI key">>
PleaseQuery == <<"(cross mark) Please enter a query">>
NoRecommendations == <<"No recommendations generated">>


(***************************************************************************)
(* Replies of the two external services.  An outcome is a record           *)
(* [kind, value]: the LLM answers "text" or raises; the weather provider   *)
(* answers "summary", or the request raises requests.RequestException or   *)
(* another Exception (for instance a body that is not the expected JSON).  *)
(***************************************************************************)
ReplyTokens == {" ", "unknown", "Paris"}

SeqsUpTo(S, n) == UNION {[1..k -> S] : k \in 0..n}

Details == {<<"timeout">>}

\* what the LLM may answer to the extraction prompt inside process_query
ExtractTexts ==
    {<<>>, <<" ">>, <<"unknown">>, <<" ", "unknown">>, <<"Paris">>, <<"Paris", " ">>}

ExtractReplies ==
    [kind : {"text"}, value : ExtractTexts] \cup [kind : {"raise"}, value : Details]

\* and to extract_location_node run alone
UnitExtractReplies ==
    [kind : {"text"}, value : SeqsUpTo(ReplyTokens, MaxReplyLen)]
        \cup [kind : {"raise"}, value : Details]

RecommendReplies ==
    [kind : {"text"}, value : {<<>>, <<"advice">>}]
        \cup [kind : {"raise"}, value : Details]

WeatherReplies ==
    [kind : {"summary"}, value : {<<"15C, Light rain">>}]
        \cup [kind : {"RequestException", "Exception"}, value : Details]

\* one call of a client: the service ("llm": llm.invoke, "weather":
\* fetch_weather_data), the stage that made it, the API key it carried and
\* what the client gave back
ExternalCall(api, stage, key, reply) ==
    [api |-> api, stage |-> stage, key |-> key, reply |-> reply]

(***************************************************************************)
(* get_llm and fetch_weather_data.  key is the value of the process-wide   *)
(* GROQ_API_KEY (WEATHER_API_KEY) at the moment of the call.               *)
(***************************************************************************)
get_llm(key) ==
    IF key = ""
    THEN [kind |-> "raise", value |-> GroqKeyNotSet]
    ELSE [kind |-> "client", value |-> <<key>>]

fetch_weather_data(location, key, reply) ==
    IF key = ""
    THEN [kind |-> "error", value |-> WeatherKeyNotSet]
    ELSE CASE reply.kind = "summary" -> [kind |-> "summary", value |-> reply.value]
           [] reply.kind = "RequestException" ->
                [kind |-> "error", value |-> WeatherApiErrorPrefix \o reply.value]
           [] OTHER ->
                [kind |-> "error", value |-> UnexpectedErrorPrefix \o reply.value]

(***************************************************************************)
(* The four nodes.  Each returns the state it leaves and the external      *)
(* calls it issued.  fetch_weather_data catches every Exception itself, so *)
(* the except branch of fetch_weather_node (lines 222-224) is never taken. *)
(***************************************************************************)
NodeResult(state, calls) == [state |-> state, calls |-> calls]

\* faulty variant: a failed extraction also marks the location as unknown
extract_location_node_MarksUnknown(state, key, reply) ==
    IF get_llm(key).kind = "raise"
    THEN NodeResult(Put(Put(state, "location", UnknownLocation), "error",
                        LocationErrorPrefix \o get_llm(key).value), <<>>)
    ELSE LET call == ExternalCall("llm", "extract_location", key, reply)
         IN  IF reply.kind = "raise"
             THEN NodeResult(Put(Put(state, "location", UnknownLocation), "error",
                                 LocationErrorPrefix \o reply.value), <<call>>)
             ELSE LET location == strip(reply.value)
                  IN  NodeResult(
                        Put(Put(state, "location", location), "messages",
                            Append(state["messages"], ExtractedPrefix \o location)),
                        <<call>>)

extract_location_node(state, key, reply) ==
    IF get_llm(key).kind = "raise"
    THEN NodeResult(Put(state, "error", LocationErrorPrefix \o get_llm(key).value),
                    <<>>)
    ELSE LET call == ExternalCall("llm", "extract_location", key, reply)
         IN  IF reply.kind = "raise"
             THEN NodeResult(Put(state, "error", LocationErrorPrefix \o reply.value),
                             <<call>>)
             ELSE LET location == strip(reply.value)
                  IN  NodeResult(
                        Put(Put(state, "location", location), "messages",
                            Append(state["messages"], ExtractedPrefix \o location)),
                        <<call>>)

\* faulty variant: an empty location is not caught before the weather call
LocationMissing_OnlyUnknown(location) == location = UnknownLocation

\* location == "unknown" or not location
LocationMissing(location) == location = UnknownLocation \/ location = <<>>

\* faulty variant: the failure string of the weather client gets a prefix
WeatherFailureText_Prefixed(weather_data) ==
    <<"Weather fetch error: ">> \o weather_data.value

\* state["error"] = weather_data["error"]
WeatherFailureText(weather_data) == weather_data.value

fetch_weather_node(state, key, reply) ==
    LET location == Get(state, "location", UnknownLocation)
    IN  IF LocationMissing(location)
        THEN NodeResult(Put(state, "error", NoLocationMsg), <<>>)
        ELSE LET weather_data == fetch_weather_data(location, key, reply)
                 call == ExternalCall("weather", "fetch_weather", key, weather_data)
             IN  IF weather_data.kind = "error"
                 THEN NodeResult(Put(state, "error", WeatherFailureText(weather_data)),
                                 <<call>>)
                 ELSE NodeResult(
                        Put(Put(state, "weather_data", weather_data.value), "messages",
                            Append(state["messages"], FetchedPrefix \o weather_data.value)),
                        <<call>>)

\* faulty variant: the weather_data check of lines 236-238 is missing
analyze_and_recommend_node_NoWeatherCheck(state, key, reply) ==
    IF get_llm(key).kind = "raise"
    THEN NodeResult(
            Put(state, "error", RecommendationErrorPrefix \o get_llm(key).value), <<>>)
    ELSE LET call == ExternalCall("llm", "analyze", key, reply)
         IN  IF reply.kind = "raise"
             THEN NodeResult(
                    Put(state, "error", RecommendationErrorPrefix \o reply.value),
                    <<call>>)
             ELSE NodeResult(
                    Put(Put(state, "recommendations", reply.value), "messages",
                        Append(state["messages"], GeneratedMsg)),
                    <<call>>)

analyze_and_recommend_node(state, key, reply) ==
    IF get_llm(key).kind = "raise"
    THEN NodeResult(
            Put(state, "error", RecommendationErrorPrefix \o get_llm(key).value), <<>>)
    ELSE IF Get(state, "weather_data", <<>>) = <<>>
    THEN NodeResult(Put(state, "error", NoWeatherMsg), <<>>)
    ELSE LET call == ExternalCall("llm", "analyze", key, reply)
         IN  IF reply.kind = "raise"
             THEN NodeResult(
                    Put(state, "error", RecommendationErrorPrefix \o reply.value),
                    <<call>>)
             ELSE NodeResult(
                    Put(Put(state, "recommendations", reply.value), "messages",
                        Append(state["messages"], GeneratedMsg)),
                    <<call>>)

\* the text the error handler shows for the recorded error
ErrorText(error_msg) == ErrorMarker \o error_msg \o ErrorHint

\* faulty variant: the handler replaces the query by the text it shows
error_handler_node_RewritesQuery(state) ==
    LET error_msg == Get(state, "error", UnknownErrorMsg)
    IN  NodeResult(Put(Put(state, "recommendations", ErrorText(error_msg)),
                       "user_query", ErrorText(error_msg)), <<>>)

\* faulty variant: the handler clears error once it has shown it
error_handler_node_ClearsError(state) ==
    LET error_msg == Get(state, "error", UnknownErrorMsg)
    IN  NodeResult(Put(Put(state, "recommendations", ErrorText(error_msg)),
                       "error", <<>>), <<>>)

error_handler_node(state) ==
    LET error_msg == Get(state, "error", UnknownErrorMsg)
    IN  NodeResult(Put(state, "recommendations", ErrorText(error_msg)), <<>>)

(***************************************************************************)
(* Routing and the graph                                                   *)
(***************************************************************************)
\* faulty variant: the route also looks at the location
should_continue_ChecksLocation(state) ==
    IF Get(state, "error", <<>>) # <<>> \/ Get(state, "location", <<>>) = <<>>
    THEN "error"
    ELSE "fetch_weather"

should_continue(state) ==
    IF Get(state, "error", <<>>) # <<>> THEN "error" ELSE "fetch_weather"

\* faulty variant: the weather stage's error is not looked at
after_weather_fetch_Always(state) == "analyze"

after_weather_fetch(state) ==
    IF Get(state, "error", <<>>) # <<>> THEN "error" ELSE "analyze"

EntryPoint == "extract_location"

Nodes == {"extract_location", "fetch_weather", "analyze", "error"}

\* faulty variant: the error node is wired back to the analysis
create_agent_graph_Cycle(node, state) ==
    CASE node = "extract_location" ->
            [fetch_weather |-> "fetch_weather", error |-> "error"][should_continue(state)]
      [] node = "fetch_weather" ->
            [analyze |-> "analyze", error |-> "error"][after_weather_fetch(state)]
      [] node = "analyze" -> "END"
      [] node = "error" -> "analyze"

\* faulty variant: a route label that no node answers to
create_agent_graph_Unmatched(node, state) ==
    CASE node = "extract_location" ->
            IF should_continue(state) = "error" THEN "error" ELSE "fetch"
      [] node = "fetch_weather" ->
            [analyze |-> "analyze", error |-> "error"][after_weather_fetch(state)]
      [] node = "analyze" -> "END"
      [] node = "error" -> "END"

\* the compiled graph: the node that follows `node` when it leaves `state`
create_agent_graph(node, state) ==
    CASE node = "extract_location" ->
            [fetch_weather |-> "fetch_weather", error |-> "error"][should_continue(state)]
      [] node = "fetch_weather" ->
            [analyze |-> "analyze", error |-> "error"][after_weather_fetch(state)]
      [] node = "analyze" -> "END"
      [] node = "error" -> "END"

(***************************************************************************)
(* State.  GROQ_API_KEY and WEATHER_API_KEY are the two process-wide       *)
(* variables.  Every thread runs process_query again and again; for the    *)
(* invocation a thread is in (or has just finished):                       *)
(*   pc       where it stands: "idle", a line of process_query, a node of  *)
(*            the graph, "END" (the graph is through), "done" (returned)   *)
(*   args     the arguments user_query, groq_key, weather_key              *)
(*   reg      the value of the right-hand side of line 357 / 358, between  *)
(*            its evaluation and the store into the global                 *)
(*   state    the AgentState the graph runs on                             *)
(*   visited  the nodes executed, in order                                 *)
(*   calls    the external calls issued, in order                          *)
(*   outputs  the values returned to the caller                            *)
(* ncalls counts the invocations started.  unit holds one node or router   *)
(* applied alone to an arbitrary state.                                    *)
(***************************************************************************)
VARIABLES GROQ_API_KEY, WEATHER_API_KEY, pc, args, reg, state, visited, calls,
          outputs, ncalls, unit

vars == <<GROQ_API_KEY, WEATHER_API_KEY, pc, args, reg, state, visited, calls,
          outputs, ncalls, unit>>

\* inputs of process_query
Queries == {<<" ">>, <<"Paris?">>}

Credentials == {<<"", "">>, <<"g1", "w1">>, <<"g2", "w2">>}

\* os.getenv("GROQ_API_KEY", ""), os.getenv("WEATHER_API_KEY", "")
Environment == {<<"", "">>, <<"g0", "">>}

NoArgs == [user_query |-> <<>>, groq_key |-> "", weather_key |-> ""]

NoState == [messages |-> <<>>]

\* lines 370-377
initial_state(user_query) ==
    [messages |-> <<>>, user_query |-> user_query, location |-> <<>>,
     weather_data |-> <<>>, recommendations |-> <<>>, error |-> <<>>]

NoUnit == [stage |-> "none"]

ThreadInit ==
    /\ pc = [t \in Threads |-> "idle"]
    /\ args = [t \in Threads |-> NoArgs]
    /\ reg = [t \in Threads |-> ""]
    /\ state = [t \in Threads |-> NoState]
    /\ visited = [t \in Threads |-> <<>>]
    /\ calls = [t \in Threads |-> <<>>]
    /\ outputs = [t \in Threads |-> <<>>]
    /\ ncalls = 0

Init ==
    /\ \E env \in Environment :
          /\ GROQ_API_KEY = env[1]
          /\ WEATHER_API_KEY = env[2]
    /\ ThreadInit
    /\ unit = NoUnit

(***************************************************************************)
(* process_query, statement by statement                                   *)
(***************************************************************************)
\* a thread enters process_query with its arguments
Call(t, user_query, groq_key, weather_key) ==
    /\ pc[t] \in {"idle", "done"}
    /\ ncalls' = ncalls + 1
    /\ args' = [args EXCEPT ![t] = [user_query |-> user_query,
                                    groq_key |-> groq_key,
                                    weather_key |-> weather_key]]
    /\ pc' = [pc EXCEPT ![t] = "load_groq"]
    /\ reg' = [reg EXCEPT ![t] = ""]
    /\ state' = [state EXCEPT ![t] = NoState]
    /\ visited' = [visited EXCEPT ![t] = <<>>]
    /\ calls' = [calls EXCEPT ![t] = <<>>]
    /\ outputs' = [outputs EXCEPT ![t] = <<>>]
    /\ UNCHANGED <<GROQ_API_KEY, WEATHER_API_KEY, unit>>

\* x or y
\* faulty variant: plain assignment of the argument
Or_Assign(x, y) == x

Or(x, y) == IF x # "" THEN x ELSE y

\* line 357, right-hand side: groq_key or GROQ_API_KEY
LoadGroq(t) ==
    /\ pc[t] = "load_groq"
    /\ reg' = [reg EXCEPT ![t] = Or(args[t].groq_key, GROQ_API_KEY)]
    /\ pc' = [pc EXCEPT ![t] = "store_groq"]
    /\ UNCHANGED <<GROQ_API_KEY, WEATHER_API_KEY, args, state, visited, calls,
                   outputs, ncalls, unit>>

\* line 357, the store into the global
StoreGroq(t) ==
    /\ pc[t] = "store_groq"
    /\ GROQ_API_KEY' = reg[t]
    /\ pc' = [pc EXCEPT ![t] = "load_weather"]
    /\ UNCHANGED <<WEATHER_API_KEY, args, reg, state, visited, calls, outputs,
                   ncalls, unit>>

\* line 358, right-hand side: weather_key or WEATHER_API_KEY
LoadWeather(t) ==
    /\ pc[t] = "load_weather"
    /\ reg' = [reg EXCEPT ![t] = Or(args[t].weather_key, WEATHER_API_KEY)]
    /\ pc' = [pc EXCEPT ![t] = "store_weather"]
    /\ UNCHANGED <<GROQ_API_KEY, WEATHER_API_KEY, args, state, visited, calls,
                   outputs, ncalls, unit>>

\* line 358, the store into the global
StoreWeather(t) ==
    /\ pc[t] = "store_weather"
    /\ WEATHER_API_KEY' = reg[t]
    /\ pc' = [pc EXCEPT ![t] = "check_groq"]
    /\ reg' = [reg EXCEPT ![t] = ""]
    /\ UNCHANGED <<GROQ_API_KEY, args, state, visited, calls, outputs, ncalls,
                   unit>>

\* process_query returns text to its caller
ReturnText(t, text) ==
    /\ outputs' = [outputs EXCEPT ![t] = Append(@, text)]
    /\ pc' = [pc EXCEPT ![t] = "done"]

\* lines 360-361
CheckGroq(t) ==
    /\ pc[t] = "check_groq"
    /\ IF GROQ_API_KEY = ""
       THEN ReturnText(t, PleaseGroqKey)
       ELSE pc' = [pc EXCEPT ![t] = "check_weather"] /\ UNCHANGED outputs
    /\ UNCHANGED <<GROQ_API_KEY, WEATHER_API_KEY, args, reg, state, visited,
                   calls, ncalls, unit>>

\* lines 362-380: the weather key, the blank query, the initial state, the graph
CheckWeather(t) ==
    /\ pc[t] = "check_weather"
    /\ IF WEATHER_API_KEY = ""
       THEN ReturnText(t, PleaseWeatherKey) /\ UNCHANGED state
       ELSE IF strip(args[t].user_query) = <<>>
       THEN ReturnText(t, PleaseQuery) /\ UNCHANGED state
       ELSE /\ state' = [state EXCEPT ![t] = initial_state(args[t].user_query)]
            /\ pc' = [pc EXCEPT ![t] = EntryPoint]
            /\ UNCHANGED outputs
    /\ UNCHANGED <<GROQ_API_KEY, WEATHER_API_KEY, args, reg, visited, calls,
                   ncalls, unit>>

(***************************************************************************)
(* agent.invoke(initial_state): one action per node of the graph.  A node  *)
(* runs, then the graph picks the node that follows.  Every node catches   *)
(* the exceptions of its client, so nothing is raised into process_query   *)
(* and its except branch (lines 386-387) is never taken.                   *)
(***************************************************************************)
RunNode(t, node, result) ==
    /\ pc[t] = node
    /\ state' = [state EXCEPT ![t] = result.state]
    /\ calls' = [calls EXCEPT ![t] = @ \o result.calls]
    /\ visited' = [visited EXCEPT ![t] = Append(@, node)]
    /\ pc' = [pc EXCEPT ![t] = create_agent_graph(node, result.state)]
    /\ UNCHANGED <<GROQ_API_KEY, WEATHER_API_KEY, args, reg, outputs, ncalls, unit>>

RunExtract(t, reply) ==
    RunNode(t, "extract_location",
            extract_location_node(state[t], GROQ_API_KEY, reply))

RunFetch(t, reply) ==
    RunNode(t, "fetch_weather",
            fetch_weather_node(state[t], WEATHER_API_KEY, reply))

RunAnalyze(t, reply) ==
    RunNode(t, "analyze",
            analyze_and_recommend_node(state[t], GROQ_API_KEY, reply))

RunError(t) ==
    RunNode(t, "error", error_handler_node(state[t]))

\* line 384
Return(t) ==
    /\ pc[t] = "END"
    /\ ReturnText(t, Get(state[t], "recommendations", NoRecommendations))
    /\ UNCHANGED <<GROQ_API_KEY, WEATHER_API_KEY, args, reg, state, visited,
                   calls, ncalls, unit>>

\* lines 357-380: the statements of process_query before the graph runs
Prepare(t) ==
    \/ LoadGroq(t)
    \/ StoreGroq(t)
    \/ LoadWeather(t)
    \/ StoreWeather(t)
    \/ CheckGroq(t)
    \/ CheckWeather(t)

\* everything a thread does once it is inside process_query, the services
\* answering anything they can
Step(t) ==
    \/ Prepare(t)
    \/ \E reply \in ExtractReplies : RunExtract(t, reply)
    \/ \E reply \in WeatherReplies : RunFetch(t, reply)
    \/ \E reply \in RecommendReplies : RunAnalyze(t, reply)
    \/ RunError(t)
    \/ Return(t)

Enter(t, max) ==
    /\ ncalls < max
    /\ \E q \in Queries, c \in Credentials : Call(t, q, c[1], c[2])

Next == \E t \in Threads : Enter(t, MaxCalls) \/ Step(t)

Spec == Init /\ [][Next]_vars

(***************************************************************************)
(* A thread inside process_query keeps running: the calls are synchronous  *)
(* and each external call returns or fails.                                *)
(***************************************************************************)
NextFair == \E t \in Threads : Enter(t, MaxFairCalls) \/ Step(t)

FairSpec == Init /\ [][NextFair]_vars /\ \A t \in Threads : WF_vars(Step(t))

(***************************************************************************)
(* The two services as deterministic mocks: what they answer is a function *)
(* of what they are sent (the key, the messages, the location).  The       *)
(* invocations come one after the other.                                   *)
(***************************************************************************)
MockExtract(key, user_query) ==
    IF key = "g2"
    THEN [kind |-> "raise", value |-> <<"401 invalid api key">>]
    ELSE [kind |-> "text", value |-> <<"Paris", " ">>]

MockWeather(key, location) ==
    IF key = "w2"
    THEN [kind |-> "RequestException", value |-> <<"403 forbidden">>]
    ELSE [kind |-> "summary", value |-> <<"15C, Light rain">>]

MockRecommend(key, user_query, weather_data) ==
    IF key = "g2"
    THEN [kind |-> "raise", value |-> <<"401 invalid api key">>]
    ELSE [kind |-> "text", value |-> <<"advice for ">> \o user_query]

StepMock(t) ==
    \/ Prepare(t)
    \/ RunExtract(t, MockExtract(GROQ_API_KEY, Get(state[t], "user_query", <<>>)))
    \/ RunFetch(t, MockWeather(WEATHER_API_KEY, Get(state[t], "location", <<>>)))
    \/ RunAnalyze(t, MockRecommend(GROQ_API_KEY, Get(state[t], "user_query", <<>>),
                                   Get(state[t], "weather_data", <<>>)))
    \/ RunError(t)
    \/ Return(t)

\* an invocation starts only when no other is running
EnterAlone(t, max) ==
    /\ \A u \in Threads : pc[u] \in {"idle", "done"}
    /\ Enter(t, max)

NextMock == \E t \in Threads : EnterAlone(t, MaxMockCalls) \/ StepMock(t)

SpecMock == Init /\ [][NextMock]_vars

(***************************************************************************)
(* One node or router applied alone, to any AgentState.  state["messages"] *)
(* and state["user_query"] are always there; the keys read with .get may   *)
(* be missing.                                                             *)
(***************************************************************************)
\* an optional entry: <<>> when the key is missing, <<v>> when it holds v
Optional(S) == {<<>>} \cup {<<v>> : v \in S}

MakeState(user_query, location, weather_data, recommendations, error) ==
    LET present == [location |-> location, weather_data |-> weather_data,
                    recommendations |-> recommendations, error |-> error]
        keys == {k \in DOMAIN present : present[k] # <<>>}
    IN  [k \in {"messages", "user_query"} \cup keys |->
            IF k = "messages" THEN <<>>
            ELSE IF k = "user_query" THEN user_query
            ELSE present[k][1]]

UnitStates ==
    {MakeState(<<"Paris?">>, l, w, r, e) :
        l \in Optional({<<>>, UnknownLocation, <<"Paris">>}),
        w \in Optional({<<>>, <<"15C, Light rain">>}),
        r \in Optional({<<>>, <<"earlier text">>}),
        e \in Optional({<<>>, <<"boom">>})}

UnitKeys == {"", "k"}

UnitInit ==
    /\ GROQ_API_KEY = ""
    /\ WEATHER_API_KEY = ""
    /\ ThreadInit
    /\ unit \in [stage : {"none"}, in : UnitStates]

Applied(stage, key, reply, out) ==
    /\ unit.stage = "none"
    /\ unit' = [stage |-> stage, in |-> unit.in, key |-> key, reply |-> reply,
                out |-> out]
    /\ UNCHANGED <<GROQ_API_KEY, WEATHER_API_KEY, pc, args, reg, state, visited,
                   calls, outputs, ncalls>>

NoReply == [kind |-> "none", value |-> <<>>]

UnitExtract ==
    \E key \in UnitKeys, reply \in UnitExtractReplies :
        Applied("extract_location", key, reply,
                extract_location_node(unit.in, key, reply))

UnitFetch ==
    \E key \in UnitKeys, reply \in WeatherReplies :
        Applied("fetch_weather", key, reply, fetch_weather_node(unit.in, key, reply))

UnitAnalyze ==
    \E key \in UnitKeys, reply \in RecommendReplies :
        Applied("analyze", key, reply,
                analyze_and_recommend_node(unit.in, key, reply))

UnitError ==
    Applied("error", "", NoReply, error_handler_node(unit.in))

UnitShouldContinue ==
    Applied("should_continue", "", NoReply, should_continue(unit.in))

UnitAfterWeatherFetch ==
    Applied("after_weather_fetch", "", NoReply, after_weather_fetch(unit.in))

NextUnit ==
    \/ UnitExtract
    \/ UnitFetch
    \/ UnitAnalyze
    \/ UnitError
    \/ UnitShouldContinue
    \/ UnitAfterWeatherFetch

SpecUnit == UnitInit /\ [][NextUnit]_vars

(***************************************************************************)
(* Vocabulary of the properties                                            *)
(***************************************************************************)
StartsWith(s, p) == Len(p) <= Len(s) /\ SubSeq(s, 1, Len(p)) = p

EndsWith(s, p) == Len(p) <= Len(s) /\ SubSeq(s, Len(s) - Len(p) + 1, Len(s)) = p

Contains(s, p) ==
    \E i \in 0..Len(s) : i + Len(p) <= Len(s) /\ SubSeq(s, i + 1, i + Len(p)) = p

AllSpace(s) == \A i \in DOMAIN s : s[i] = " "

\* the message format of the Error Stage around a cause text
IsErrorMessage(text, cause) ==
    /\ StartsWith(text, ErrorMarker)
    /\ EndsWith(text, ErrorHint)
    /\ Contains(SubSeq(text, Len(ErrorMarker) + 1, Len(text) - Len(ErrorHint)), cause)
    /\ Len(text) = Len(ErrorMarker) + Len(cause) + Len(ErrorHint)

Ran(t, node) == \E i \in DOMAIN visited[t] : visited[t][i] = node

\* the graph of thread t's invocation is through
Terminal(t) == pc[t] \in {"END", "done"} /\ visited[t] # <<>>

\* the invocation of thread t is inside the graph, or through it
InGraph(t) == pc[t] \in Nodes \/ Terminal(t)

ErrorOf(t) == Get(state[t], "error", <<>>)

TextOf(t) == Get(state[t], "recommendations", <<>>)

CallsOf(t, api, stage) ==
    {i \in DOMAIN calls[t] : calls[t][i].api = api /\ calls[t][i].stage = stage}

\* the extraction's LLM call of thread t came back with a text
Extracted(t) ==
    /\ Ran(t, "extract_location")
    /\ calls[t] # <<>>
    /\ calls[t][1].stage = "extract_location"
    /\ calls[t][1].reply.kind = "text"

(***************************************************************************)
(* C1.  Whichever stage records a non-empty error, the Error Stage runs    *)
(* before Terminal and process_query returns the Error Stage's message     *)
(* with that error text in it.                                             *)
(***************************************************************************)
C1_EveryErrorReachesErrorStage ==
    \A t \in Threads :
        (Terminal(t) /\ ErrorOf(t) # <<>>) =>
            /\ Ran(t, "error")
            /\ pc[t] = "done" => /\ Len(outputs[t]) = 1
                                 /\ IsErrorMessage(outputs[t][1], ErrorOf(t))

(***************************************************************************)
(* C2.  At Terminal exactly one of recommendations and error is non-empty. *)
(***************************************************************************)
C2_ExactlyOneNonEmpty ==
    \A t \in Threads :
        Terminal(t) => ((TextOf(t) # <<>>) # (ErrorOf(t) # <<>>))

(***************************************************************************)
(* C2, as amended.  At Terminal: a run that ended through the Error Stage  *)
(* has recommendations and error both non-empty; a run that ended through  *)
(* the Recommendation stage never has both non-empty (recommendations is   *)
(* the LLM's text, which may be empty, and error is empty; or the stage    *)
(* failed, error is set and recommendations is empty).                     *)
(***************************************************************************)
C2_TerminalOutcome ==
    \A t \in Threads :
        Terminal(t) =>
            IF Ran(t, "error")
            THEN TextOf(t) # <<>> /\ ErrorOf(t) # <<>>
            ELSE /\ ~(TextOf(t) # <<>> /\ ErrorOf(t) # <<>>)
                 /\ ErrorOf(t) = <<>> =>
                        /\ CallsOf(t, "llm", "analyze") # {}
                        /\ \A i \in CallsOf(t, "llm", "analyze") :
                              TextOf(t) = calls[t][i].reply.value

C2_Witness ==
    \E t \in Threads :
        /\ pc[t] = "done" /\ Ran(t, "error")
        /\ TextOf(t) # <<>> /\ ErrorOf(t) # <<>>

(***************************************************************************)
(* C3.  When the extraction succeeds and leaves location "unknown" or      *)
(* empty (a whitespace-only reply included): fetch_weather_data is never   *)
(* invoked, the Recommendation stage never runs, and the run ends with the *)
(* Error Stage's message carrying the include-a-city guidance.             *)
(***************************************************************************)
C3_NoLocation(t) ==
    /\ Extracted(t)
    /\ \/ AllSpace(calls[t][1].reply.value)
       \/ Get(state[t], "location", <<>>) \in {UnknownLocation, <<>>}

C3_NoLocationShortCircuit ==
    \A t \in Threads :
        (InGraph(t) /\ C3_NoLocation(t)) =>
            /\ CallsOf(t, "weather", "fetch_weather") = {}
            /\ ~Ran(t, "analyze")
            /\ CallsOf(t, "llm", "analyze") = {}
            /\ Terminal(t) =>
                  /\ visited[t] = <<"extract_location", "fetch_weather", "error">>
                  /\ IsErrorMessage(TextOf(t), NoLocationMsg)
            /\ pc[t] = "done" =>
                  /\ Len(outputs[t]) = 1
                  /\ IsErrorMessage(outputs[t][1], NoLocationMsg)

C3_Witness ==
    \E t \in Threads :
        /\ pc[t] = "done"
        /\ C3_NoLocation(t)
        /\ calls[t][1].reply.value = <<" ">>
        /\ Ran(t, "error")

(***************************************************************************)
(* C4.  When the extraction gave a location and fetch_weather_data reports *)
(* the failure string F: error is exactly F, weather_data stays empty, the *)
(* Recommendation stage and its LLM call never happen, and the output is   *)
(* the Error Stage's message around F.                                     *)
(***************************************************************************)
C4_WeatherFailed(t) ==
    /\ Extracted(t)
    /\ \E i \in CallsOf(t, "weather", "fetch_weather") :
          calls[t][i].reply.kind = "error"

C4_FailureText(t) ==
    calls[t][CHOOSE i \in CallsOf(t, "weather", "fetch_weather") : TRUE].reply.value

C4_WeatherFailureVerbatim ==
    \A t \in Threads :
        (InGraph(t) /\ C4_WeatherFailed(t)) =>
            /\ ErrorOf(t) = C4_FailureText(t)
            /\ Get(state[t], "weather_data", <<>>) = <<>>
            /\ ~Ran(t, "analyze")
            /\ CallsOf(t, "llm", "analyze") = {}
            /\ Terminal(t) =>
                  /\ Ran(t, "error")
                  /\ TextOf(t) = ErrorMarker \o C4_FailureText(t) \o ErrorHint
            /\ pc[t] = "done" =>
                  outputs[t] = <<ErrorMarker \o C4_FailureText(t) \o ErrorHint>>

C4_Witness ==
    \E t \in Threads :
        /\ pc[t] = "done"
        /\ C4_WeatherFailed(t)
        /\ C4_FailureText(t) = WeatherApiErrorPrefix \o <<"timeout">>
        /\ Len(outputs[t]) = 1

(***************************************************************************)
(* C5.  Once error is non-empty in a run: weather_data is not written      *)
(* again, no LLM call and no weather call is made, and no stage but the    *)
(* Error Stage executes.                                                   *)
(***************************************************************************)
C5_AfterError(t) ==
    (InGraph(t) /\ ErrorOf(t) # <<>> /\ pc'[t] # "load_groq") =>
        /\ Get(state'[t], "weather_data", <<>>) = Get(state[t], "weather_data", <<>>)
        /\ ErrorOf(t)' = ErrorOf(t)
        /\ calls'[t] = calls[t]
        /\ \/ visited'[t] = visited[t]
           \/ visited'[t] = Append(visited[t], "error")

C5_NothingAfterError == [][\A t \in Threads : C5_AfterError(t)]_vars

C5_Witness ==
    \E t \in Threads :
        /\ pc[t] = "done"
        /\ visited[t] = <<"extract_location", "fetch_weather", "error">>
        /\ CallsOf(t, "weather", "fetch_weather") # {}
        /\ ErrorOf(t) # <<>>

(***************************************************************************)
(* C6.  Every LLM call and every weather call made for an invocation that  *)
(* was passed credentials carries those credentials, however the           *)
(* invocations interleave.                                                 *)
(***************************************************************************)
C6_OwnCredentials ==
    \A t \in Threads : \A i \in DOMAIN calls[t] :
        /\ (calls[t][i].api = "llm" /\ args[t].groq_key # "") =>
                calls[t][i].key = args[t].groq_key
        /\ (calls[t][i].api = "weather" /\ args[t].weather_key # "") =>
                calls[t][i].key = args[t].weather_key

(***************************************************************************)
(* C7.  The stages of a run form a linear chain: extract_location first,   *)
(* fetch_weather only right after it, analyze only right after             *)
(* fetch_weather, Terminal only from analyze or error, no stage twice,     *)
(* analyze and error never both.                                           *)
(***************************************************************************)
C7_Chain(v) ==
    /\ v # <<>> => v[1] = "extract_location"
    /\ \A i \in DOMAIN v :
          /\ v[i] = "extract_location" => i = 1
          /\ v[i] = "fetch_weather" => (i > 1 /\ v[i - 1] = "extract_location")
          /\ v[i] = "analyze" => (i > 1 /\ v[i - 1] = "fetch_weather")
    /\ \A i, j \in DOMAIN v : v[i] = v[j] => i = j
    /\ ~(\E i, j \in DOMAIN v : v[i] = "analyze" /\ v[j] = "error")

C7_LinearChain ==
    \A t \in Threads :
        /\ C7_Chain(visited[t])
        /\ pc[t] \in Nodes => C7_Chain(Append(visited[t], pc[t]))
        /\ pc[t] = "END" =>
              /\ visited[t] # <<>>
              /\ visited[t][Len(visited[t])] \in {"analyze", "error"}

C7_Witness ==
    \E t \in Threads :
        /\ pc[t] = "END"
        /\ visited[t] = <<"extract_location", "fetch_weather", "analyze">>

(***************************************************************************)
(* C8.  With deterministic services, two invocations with the same query   *)
(* and the same credential arguments return the same output, whatever      *)
(* other invocations came before or between.                               *)
(***************************************************************************)
C8_SameArgsSameOutput ==
    \A t1, t2 \in Threads :
        (pc[t1] = "done" /\ pc[t2] = "done" /\ args[t1] = args[t2]) =>
            outputs[t1] = outputs[t2]

(***************************************************************************)
(* C9.  Every invocation ends: it reaches "done" having returned exactly   *)
(* one output, and never more than one.                                    *)
(***************************************************************************)
C9_Returned(t) == pc[t] = "done" /\ Len(outputs[t]) = 1

C9_OneOutput ==
    \A t \in Threads :
        Len(outputs[t]) = (IF pc[t] = "done" THEN 1 ELSE 0)

C9_EveryRunReturns ==
    /\ []C9_OneOutput
    /\ \A t \in Threads : (pc[t] \notin {"idle", "done"}) ~> C9_Returned(t)

C9_Witness ==
    \E t \in Threads :
        /\ C9_Returned(t)
        /\ Ran(t, "analyze")
        /\ ErrorOf(t) # <<>>

(***************************************************************************)
(* C10.  The Error Stage, on any state: recommendations becomes the        *)
(* warning marker, the cause, the hint; the cause is error when that is    *)
(* non-empty and "Unknown error occurred" when error is empty or missing;  *)
(* no external call, no other field changed.                               *)
(***************************************************************************)
C10_Cause(s) ==
    IF Get(s, "error", <<>>) # <<>> THEN s["error"] ELSE UnknownErrorMsg

C10_ErrorStageMessage ==
    unit.stage = "error" =>
        /\ unit.out.state["recommendations"]
              = ErrorMarker \o C10_Cause(unit.in) \o ErrorHint
        /\ unit.out.calls = <<>>
        /\ DOMAIN unit.out.state = DOMAIN unit.in \cup {"recommendations"}
        /\ \A k \in DOMAIN unit.in \ {"recommendations"} :
              unit.out.state[k] = unit.in[k]

(***************************************************************************)
(* C11.  When the LLM client fails with detail D (the call raises, or the  *)
(* client cannot be built for want of a key): extract_location_node sets   *)
(* error to "Location extraction error: D", analyze_and_recommend_node to  *)
(* "Recommendation generation error: D"; the stage returns its state and   *)
(* leaves location, weather_data and recommendations as they were.         *)
(***************************************************************************)
\* key k is in both dicts with one value, or in neither
C11_SameEntry(before, after, k) ==
    /\ (k \in DOMAIN after) = (k \in DOMAIN before)
    /\ k \in DOMAIN before => after[k] = before[k]

\* the LLM call of the stage applied in unit failed
C11_LlmFailed ==
    \/ unit.key = ""
    \/ /\ unit.reply.kind = "raise"
       /\ \/ unit.stage = "extract_location"
          \/ Get(unit.in, "weather_data", <<>>) # <<>>

C11_Detail == IF unit.key = "" THEN GroqKeyNotSet ELSE unit.reply.value

C11_LlmFailureRecorded ==
    (unit.stage \in {"extract_location", "analyze"} /\ C11_LlmFailed) =>
        /\ DOMAIN unit.out = {"state", "calls"}
        /\ "error" \in DOMAIN unit.out.state
        /\ unit.out.state["error"]
              = (IF unit.stage = "extract_location"
                 THEN <<"Location extraction error: ">>
                 ELSE <<"Recommendation generation error: ">>) \o C11_Detail
        /\ \A k \in {"location", "weather_data", "recommendations"} :
              C11_SameEntry(unit.in, unit.out.state, k)

C11_Witness ==
    /\ unit.stage = "extract_location"
    /\ unit.key = ""
    /\ "location" \in DOMAIN unit.in
    /\ unit.in["location"] = <<"Paris">>
    /\ unit.out.state["error"] = <<"Location extraction error: ">> \o GroqKeyNotSet

(***************************************************************************)
(* C12.  should_continue and after_weather_fetch are total and pure: each  *)
(* returns one of its two labels, "error" exactly when error is non-empty, *)
(* the label depends on error alone and names a node of the graph.         *)
(***************************************************************************)
C12_ErrorSet(s) == "error" \in DOMAIN s /\ s["error"] # <<>>

C12_Route(router, onward) ==
    LET s == unit.in
    IN  /\ unit.out \in {"error", onward}
        /\ (unit.out = "error") = C12_ErrorSet(s)
        /\ unit.out \in Nodes
        /\ \A other \in UnitStates :
              C12_ErrorSet(other) = C12_ErrorSet(s) =>
                 (IF router = "should_continue"
                  THEN should_continue(other)
                  ELSE after_weather_fetch(other)) = unit.out

C12_RoutersTotalAndPure ==
    /\ unit.stage = "should_continue" =>
          /\ C12_Route("should_continue", "fetch_weather")
          /\ create_agent_graph("extract_location", unit.in) = unit.out
    /\ unit.stage = "after_weather_fetch" =>
          /\ C12_Route("after_weather_fetch", "analyze")
          /\ create_agent_graph("fetch_weather", unit.in) = unit.out

C12_Witness ==
    /\ unit.stage = "should_continue"
    /\ unit.out = "fetch_weather"
    /\ "location" \in DOMAIN unit.in
    /\ unit.in["location"] = <<>>
    /\ "error" \in DOMAIN unit.in

(***************************************************************************)
(* C13.  An invocation whose query is empty or whitespace-only is rejected *)
(* before the graph is built: no AgentState, no stage, no LLM or weather   *)
(* call, a rejection message returned; and it has no effect on any later   *)
(* invocation, that is, it leaves the process-wide variables as they were. *)
(***************************************************************************)
C13_Blank(t) == pc[t] # "idle" /\ strip(args[t].user_query) = <<>>

C13_Rejected(t) ==
    /\ state[t] = NoState
    /\ visited[t] = <<>>
    /\ calls[t] = <<>>
    /\ pc[t] \notin Nodes \cup {"END"}
    /\ pc[t] = "done" =>
          /\ Len(outputs[t]) = 1
          /\ outputs[t][1] \in {PleaseQuery, PleaseGroqKey, PleaseWeatherKey}

C13_NoEffect(t) ==
    (C13_Blank(t) /\ pc[t] # "done" /\ pc'[t] # pc[t]) =>
        /\ GROQ_API_KEY' = GROQ_API_KEY
        /\ WEATHER_API_KEY' = WEATHER_API_KEY

C13_BlankQueryRejected ==
    /\ [](\A t \in Threads : C13_Blank(t) => C13_Rejected(t))
    /\ [][\A t \in Threads : C13_NoEffect(t)]_vars

(***************************************************************************)
(* C14.  user_query never changes: wherever a run stands, from its first   *)
(* state through Terminal, state["user_query"] is the query process_query  *)
(* was called with.                                                        *)
(***************************************************************************)
C14_QueryImmutable ==
    \A t \in Threads :
        InGraph(t) =>
            /\ "user_query" \in DOMAIN state[t]
            /\ state[t]["user_query"] = args[t].user_query

C14_Witness ==
    \E t \in Threads :
        /\ pc[t] = "done"
        /\ Ran(t, "error")
        /\ state[t]["user_query"] = <<"Paris?">>
        /\ outputs[t] # <<>>

(***************************************************************************)
(* C15.  In a run the external calls are, in this order and at most once   *)
(* each: the extraction's LLM call, the weather call, the recommendation's *)
(* LLM call.  The weather call comes only after the extraction returned a  *)
(* known location, the recommendation's call only after the weather call   *)
(* returned a summary; nothing is called again after a failure.            *)
(***************************************************************************)
C15_Is(call, api, stage) == call.api = api /\ call.stage = stage

C15_KnownLocation(text) ==
    /\ ~AllSpace(text)
    /\ \A i, j \in DOMAIN text :
          (AllSpace(SubSeq(text, 1, i - 1)) /\ AllSpace(SubSeq(text, j + 1, Len(text))))
              => SubSeq(text, i, j) # <<"unknown">>

C15_CallOrder ==
    \A t \in Threads :
        LET c == calls[t]
        IN  /\ Len(c) <= 3
            /\ Len(c) >= 1 => C15_Is(c[1], "llm", "extract_location")
            /\ Len(c) >= 2 =>
                  /\ C15_Is(c[2], "weather", "fetch_weather")
                  /\ c[1].reply.kind = "text"
                  /\ C15_KnownLocation(c[1].reply.value)
            /\ Len(c) >= 3 =>
                  /\ C15_Is(c[3], "llm", "analyze")
                  /\ c[2].reply.kind = "summary"

C15_Witness ==
    \E t \in Threads :
        /\ pc[t] = "done"
        /\ Len(calls[t]) = 3
        /\ calls[t][1].reply.value = <<"Paris", " ">>
        /\ calls[t][3].reply.kind = "raise"

(***************************************************************************)
(* The nodes called directly and the runs of process_query, side by side:  *)
(* a behaviour is either one direct application of a node or router to a  *)
(* state, or a behaviour of process_query invocations.                     *)
(***************************************************************************)
NextBoth ==
    \/ unit = NoUnit /\ Next
    \/ unit # NoUnit /\ NextUnit

SpecBoth == (Init \/ UnitInit) /\ [][NextBoth]_vars

C16_AnalyzedEmpty ==
    /\ unit # NoUnit
    /\ unit.stage = "analyze"
    /\ Get(unit.in, "weather_data", <<>>) = <<>>

C16_NoWeatherOutcome ==
    /\ DOMAIN unit.out = {"state", "calls"}
    /\ "error" \in DOMAIN unit.out.state
    /\ unit.out.state["error"] = NoWeatherMsg
    /\ unit.out.calls = <<>>
    /\ C11_SameEntry(unit.in, unit.out.state, "recommendations")

C16_EnteredWithWeather ==
    \A t \in Threads :
        pc[t] = "analyze" =>
            /\ ErrorOf(t) = <<>>
            /\ Get(state[t], "weather_data", <<>>) # <<>>

\* C16 as stated: on a state with empty weather_data the Recommendation
\* stage sets error to exactly "No weather data available", calls nothing
\* and leaves recommendations alone, whatever the LLM credential; and no
\* run enters the stage with error set or weather_data empty.
C16_NoWeatherAlways ==
    /\ C16_AnalyzedEmpty => C16_NoWeatherOutcome
    /\ C16_EnteredWithWeather

(***************************************************************************)
(* C16.  With an LLM key set, the Recommendation stage called on a state   *)
(* whose weather_data is empty sets error to exactly "No weather data      *)
(* available", submits nothing to the LLM and leaves recommendations       *)
(* unchanged; with no LLM key it records the missing-key failure instead   *)
(* (get_llm runs first), still without a call and without touching         *)
(* recommendations.  In every run the stage is entered only with error     *)
(* empty and weather_data non-empty.                                       *)
(***************************************************************************)
C16_NoWeatherWithKey ==
    /\ (C16_AnalyzedEmpty /\ unit.key # "") => C16_NoWeatherOutcome
    /\ (C16_AnalyzedEmpty /\ unit.key = "") =>
          /\ unit.out.state["error"] = RecommendationErrorPrefix \o GroqKeyNotSet
          /\ unit.out.calls = <<>>
          /\ C11_SameEntry(unit.in, unit.out.state, "recommendations")
    /\ C16_EnteredWithWeather

C16_Witness ==
    /\ C16_AnalyzedEmpty
    /\ unit.key = "k"
    /\ "weather_data" \in DOMAIN unit.in
    /\ "recommendations" \in DOMAIN unit.in
    /\ unit.out.state["error"] = NoWeatherMsg

(***************************************************************************)
(* C17.  Across a sequence of process_query invocations the credential     *)
(* variables are monotone: a non-empty variable never becomes empty; each  *)
(* invocation, blank query or not, stores "argument if non-empty, else     *)
(* the variable" into it; an invocation is rejected with a missing-key     *)
(* message only while the variable is empty; and every external call is    *)
(* made with the variable's current value, so an invocation passing empty  *)
(* key arguments runs on the key an earlier invocation supplied.           *)
(***************************************************************************)
C17_Monotone ==
    /\ GROQ_API_KEY # "" => GROQ_API_KEY' # ""
    /\ WEATHER_API_KEY # "" => WEATHER_API_KEY' # ""

C17_Overwrite(t) ==
    /\ (pc[t] = "store_groq" /\ pc'[t] # pc[t]) =>
          GROQ_API_KEY' = Or(args[t].groq_key, GROQ_API_KEY)
    /\ (pc[t] = "store_weather" /\ pc'[t] # pc[t]) =>
          WEATHER_API_KEY' = Or(args[t].weather_key, WEATHER_API_KEY)

C17_MissingKeyOnlyIfEmpty(t) ==
    (pc'[t] = "done" /\ pc[t] # "done" /\ Len(outputs'[t]) > 0) =>
        LET text == outputs'[t][Len(outputs'[t])]
        IN  /\ text = PleaseGroqKey => GROQ_API_KEY = ""
            /\ text = PleaseWeatherKey => WEATHER_API_KEY = ""

C17_CallsUseGlobal(t) ==
    Len(calls'[t]) > Len(calls[t]) =>
        LET call == calls'[t][Len(calls'[t])]
        IN  call.key = IF call.api = "llm" THEN GROQ_API_KEY ELSE WEATHER_API_KEY

C17_CredentialsMonotone ==
    [][/\ C17_Monotone
       /\ \A t \in Threads :
             /\ C17_Overwrite(t)
             /\ C17_MissingKeyOnlyIfEmpty(t)
             /\ C17_CallsUseGlobal(t)]_vars

C17_Witness ==
    \E t, u \in Threads :
        /\ args[t].groq_key = ""
        /\ args[t].weather_key = ""
        /\ Len(calls[t]) >= 2
        /\ calls[t][1].key = "g1"
        /\ calls[t][2].key = "w1"
        /\ u # t
        /\ strip(args[u].user_query) = <<>>
        /\ args[u].groq_key = "g1"
        /\ pc[u] = "done"

=============================================================================
